---- MODULE Spec2Model ----
(***************************************************************************)
(* Moderation case lifecycle and expiry scheduler of the bot               *)
(* (src/cogs/mod.py): the cases table, the platform state the hooks act    *)
(* on (guild members, bans, timeouts), the command handlers as coroutines  *)
(* that suspend at every awaited store or platform call, and the           *)
(* tasks.loop that runs Moderation.case_removal.                           *)
(***************************************************************************)
EXTENDS Integers, Sequences, FiniteSets, TLC

\* ------------------------------------------------------------------ bounds
\* Highest value of the clock (seconds, abstracted).
MaxTime == 2
\* Number of command messages sent in a run; a message's id is the id of the
\* case its command creates (Case.generate_id).
MaxMsgs == 2
\* Longest duration a command may give (expires = now + duration).
MaxDur == 2
\* Number of stored cases in the runs that query the table.
MaxRows == 3
\* Highest limit given to a query.
MaxLimit == 2
\* Highest cash or bank balance a user starts a run with, and the deepest debt.
MaxCash == 1
MaxDebt == 1
\* Highest amount an economy command is given.
MaxAmount == 2

\* --------------------------------------------------------- program constants
WARN == 1
MUTE == 2
KICK == 3
BAN == 4
\* SQL NULL / Python None in the expires column.
NULL == -1

CaseTypes == {WARN, MUTE, KICK, BAN}
Guilds == {"g1", "g2"}
Users == {"u1", "u2"}
NoText == "None"

VARIABLES
    cases,      \* the rows of table cases
    members,    \* guild -> users in guild.members
    banned,     \* guild -> users banned from the guild
    timedOut,   \* guild -> user -> timed_out_until (NULL when not set)
    now,        \* datetime.datetime.now()
    nextId,     \* id of the next command message (snowflake)
    loop,       \* the Loop object bound to the Moderation cog instance
    classLoop,  \* the Loop object reached through the class, Moderation.case_removal
    hs,         \* handler -> the command coroutine it is running
    faults,     \* whether platform calls can fail (Forbidden) in this run
    seq,        \* whether the calls of create() and delete() run one at a time
    ev,         \* what the last step completed (a tick, a command), else "none"
    economy,    \* the rows of table economy of one guild: user -> cash, bank
    economy0,   \* the rows of table economy when the run began
    es          \* invocation -> the economy command coroutine it is running

modVars == <<cases, members, banned, timedOut, now, nextId, loop, classLoop, hs, ev>>
ecoVars == <<economy, economy0, es>>
vars == <<cases, members, banned, timedOut, now, nextId, loop, classLoop, hs, faults, seq, ev,
          economy, economy0, es>>

\* The command invocations that can be in progress at once.
Handlers == DOMAIN hs

\* ------------------------------------------------------------- Case objects
\* Case.__init__: cls is the Python class of the object (its hooks), type the
\* CaseType it carries.
Case(cls, id, guild, user, moderator, reason, expires, message) ==
    [cls |-> cls, type |-> cls, id |-> id, guild |-> guild, user |-> user,
     moderator |-> moderator, reason |-> reason, expires |-> expires,
     message |-> message]

NoCase == Case(0, 0, "none", "none", "none", NoText, NULL, NoText)

\* The row Case.create writes.
RowOf(c) ==
    [type |-> c.type, guild_id |-> c.guild, case_id |-> c.id, user_id |-> c.user,
     moderator_id |-> c.moderator, reason |-> c.reason, expires |-> c.expires,
     message |-> c.message]

\* A from_dict that reads the target from the moderator column.
from_dictWrongUser(cls, row) ==
    [cls |-> cls, type |-> IF cls = 0 THEN row.type ELSE cls, id |-> row.case_id,
     guild |-> row.guild_id, user |-> row.moderator_id, moderator |-> row.moderator_id,
     reason |-> row.reason, expires |-> row.expires, message |-> row.message]

\* Case.from_dict invoked on class cls (0 stands for the base class Case with
\* get_type=True, whose object carries the stored type).
from_dict(cls, row) ==
    [cls |-> cls, type |-> IF cls = 0 THEN row.type ELSE cls, id |-> row.case_id,
     guild |-> row.guild_id, user |-> row.user_id, moderator |-> row.moderator_id,
     reason |-> row.reason, expires |-> row.expires, message |-> row.message]

\* Case.from_db invoked on class cls with get_type: base_case =
\* cls.from_dict(row, client, get_type) raises TypeError when the base class is
\* given no _type, and when a subclass is given one.
from_db_raises(cls, get_type) == (cls = 0) # get_type

\* Else the object is built by case_mapping.get(base_case.type, cls), where
\* base_case.type is the row's type only when cls is the base class: a
\* subclass's from_dict drops the row's type and its __init__ sets its own.
from_db_case(cls, row) ==
    LET base_case == from_dict(cls, row)
        case_class == base_case.type
    IN  [base_case EXCEPT !.cls = case_class, !.type = case_class]

\* A membership check that lets every target pass.
IsMemberAlways(c) == TRUE

\* self._user in self._guild.members
IsMember(c) == c.user \in members[c.guild]

\* ----------------------------------------------------- the world hooks act on
World == [cases |-> cases, members |-> members, banned |-> banned,
          timedOut |-> timedOut]

\* Result of a hook: the world after it, what it did, whether it raised.
Did(w, acts) == [w |-> w, acts |-> acts, raised |-> FALSE]
Raised(w, acts) == [w |-> w, acts |-> acts, raised |-> TRUE]

\* A send whose discord.Forbidden is not caught.
NotifyRaises(w, dm) ==
    IF dm THEN Did(w, <<"notify">>) ELSE Raised(w, <<"notify_forbidden">>)

\* await self._user.send(**message), discord.Forbidden swallowed.
Notify(w, dm) == Did(w, IF dm THEN <<"notify">> ELSE <<"notify_forbidden">>)

\* A timeout whose Forbidden is swallowed by the hook.
TimeoutSwallowed(w, c, ok) ==
    IF ok
    THEN Did([w EXCEPT !.timedOut[c.guild][c.user] = c.expires], <<"timeout">>)
    ELSE Did(w, <<"timeout_forbidden">>)

\* member.timeout(until): fails with Forbidden when the bot may not moderate.
Timeout(w, c, ok) ==
    IF ok
    THEN Did([w EXCEPT !.timedOut[c.guild][c.user] = c.expires], <<"timeout">>)
    ELSE Raised(w, <<"timeout_forbidden">>)

\* member.edit(timed_out_until=None)
RemoveTimeout(w, c, ok) ==
    IF ok
    THEN Did([w EXCEPT !.timedOut[c.guild][c.user] = NULL], <<"remove_timeout">>)
    ELSE Raised(w, <<"remove_timeout_forbidden">>)

\* member.kick(): the member leaves guild.members.
KickMember(w, c, ok) ==
    IF ok
    THEN Did([w EXCEPT !.members[c.guild] = @ \ {c.user}], <<"kick">>)
    ELSE Raised(w, <<"kick_forbidden">>)

\* guild.ban(user): the user is banned and leaves guild.members.
BanUser(w, c, ok) ==
    IF ok
    THEN Did([w EXCEPT !.members[c.guild] = @ \ {c.user},
                       !.banned[c.guild] = @ \cup {c.user}], <<"ban">>)
    ELSE Raised(w, <<"ban_forbidden">>)

\* guild.unban(user): NotFound (not banned) is swallowed, Forbidden is not.
UnbanUser(w, c, ok) ==
    IF ~ok
    THEN Raised(w, <<"unban_forbidden">>)
    ELSE IF c.user \in w.banned[c.guild]
         THEN Did([w EXCEPT !.banned[c.guild] = @ \ {c.user}], <<"unban">>)
         ELSE Did(w, <<"unban_notfound">>)

\* Warn / Kick / Mute / Ban .before_creation (Case.before_creation: pass)
before_creation(c, w, ok, dm) ==
    CASE c.cls = MUTE ->
            IF c.expires # NULL THEN Timeout(w, c, ok) ELSE Did(w, <<>>)
      [] c.cls = KICK -> Notify(w, dm)
      [] c.cls = BAN -> Notify(w, dm)
      [] OTHER -> Did(w, <<>>)

\* Warn / Kick / Mute / Ban .after_creation
after_creation(c, w, ok, dm) ==
    CASE c.cls = WARN -> Notify(w, dm)
      [] c.cls = MUTE -> Notify(w, dm)
      [] c.cls = KICK -> KickMember(w, c, ok)
      [] c.cls = BAN -> BanUser(w, c, ok)
      [] OTHER -> Did(w, <<>>)

\* Mute / Ban .before_deletion
before_deletion(c, w, ok, dm) ==
    CASE c.cls = MUTE ->
            IF c.user \notin w.members[c.guild] \/ w.timedOut[c.guild][c.user] = NULL
            THEN Did(w, <<>>)
            ELSE RemoveTimeout(w, c, ok)
      [] c.cls = BAN -> UnbanUser(w, c, ok)
      [] OTHER -> Did(w, <<>>)

\* Warn / Mute / Ban .after_deletion
after_deletion(c, w, ok, dm) ==
    CASE c.cls = WARN -> Notify(w, dm)
      [] c.cls = MUTE -> Notify(w, dm)
      [] c.cls = BAN ->
            IF c.user \in w.members[c.guild] THEN Notify(w, dm) ELSE Did(w, <<>>)
      [] OTHER -> Did(w, <<>>)

\* INSERT INTO cases (...) VALUES (...)
Insert(w, c) == Did([w EXCEPT !.cases = @ \cup {RowOf(c)}], <<>>)

\* A failed INSERT whose error create() swallows.
InsertFailsSilently(w) == Did(w, <<"insert_error">>)

\* The INSERT raising a store-level error (asyncpg.PostgresError: a violated
\* constraint, a lost connection): nothing is written.
InsertFails(w) == Raised(w, <<"insert_error">>)

\* A DELETE that fails when it finds no row to remove.
DeleteRowOnce(w, c) ==
    IF \E r \in w.cases : r.case_id = c.id
    THEN Did([w EXCEPT !.cases = {r \in @ : r.case_id # c.id}], <<>>)
    ELSE Raised(w, <<"delete_error">>)

\* DELETE FROM cases WHERE case_id = $1
DeleteRow(w, c) ==
    Did([w EXCEPT !.cases = {r \in @ : r.case_id # c.id}], <<>>)

\* ----------------------------------------------- Case.create / Case.delete
\* The steps of Case.create and of Case.delete, in the order of their awaits.
\* create() writing the row before it runs before_creation.
CreateOrderInsertFirst == <<"check", "INSERT", "before_creation", "after_creation">>

CreateOrder == <<"check", "before_creation", "INSERT", "after_creation">>
DeleteOrder == <<"check", "before_deletion", "DELETE", "after_deletion">>

\* The step after `step` in `order`; "ret" after the last.
NextStep(order, step) ==
    LET i == CHOOSE k \in 1..Len(order) : order[k] = step
    IN  IF i = Len(order) THEN "ret" ELSE order[i + 1]

\* What one step of a call does: the world after it, the entries it adds to
\* the call's log, and where the call goes ("ret": returned self / None,
\* "raise": an exception left the call).
StepResult(r, step, next) ==
    [w |-> r.w, log |-> <<step>> \o r.acts,
     pc |-> IF r.raised THEN "raise" ELSE next]

CreateStep(c, step, w, ok, dm) ==
    CASE step = "check" ->
            IF ~IsMember(c)
            THEN [w |-> w, log |-> <<"check">>, pc |-> "ret_none"]
            ELSE [w |-> w, log |-> <<"check">>, pc |-> NextStep(CreateOrder, step)]
      [] step = "before_creation" ->
            StepResult(before_creation(c, w, ok, dm), step, NextStep(CreateOrder, step))
      [] step = "INSERT" ->
            IF ok
            THEN StepResult(Insert(w, c), step, NextStep(CreateOrder, step))
            ELSE StepResult(InsertFails(w), step, NextStep(CreateOrder, step))
      [] step = "after_creation" ->
            StepResult(after_creation(c, w, ok, dm), step, NextStep(CreateOrder, step))

DeleteStep(c, step, w, ok, dm) ==
    CASE step = "check" ->
            IF ~IsMember(c)
            THEN [w |-> w, log |-> <<"check">>, pc |-> "ret_none"]
            ELSE [w |-> w, log |-> <<"check">>, pc |-> NextStep(DeleteOrder, step)]
      [] step = "before_deletion" ->
            StepResult(before_deletion(c, w, ok, dm), step, NextStep(DeleteOrder, step))
      [] step = "DELETE" ->
            StepResult(DeleteRow(w, c), step, NextStep(DeleteOrder, step))
      [] step = "after_deletion" ->
            StepResult(after_deletion(c, w, ok, dm), step, NextStep(DeleteOrder, step))

\* ------------------------------------------------------------- call frames
\* A coroutine's position inside Case.create / Case.delete: the step it is
\* about to run, the Case object, and what the call has done so far (log),
\* with whether the target was a member when the check ran and the rows
\* stored under the case's id when the call began.
Frame(pc, c) ==
    [pc |-> pc, case |-> c, log |-> <<>>, wasMember |-> TRUE, before |-> {}]

RowsWithId(rows, id) == {r \in rows : r.case_id = id}

\* The frame after the step that produced `r`.
Advanced(f, order, r) ==
    [f EXCEPT !.pc = r.pc,
              !.log = IF f.pc = order[1] THEN r.log ELSE @ \o r.log,
              !.wasMember = IF f.pc = "check"
                            THEN f.case.user \in members[f.case.guild] ELSE @,
              !.before = IF f.pc = order[1] THEN RowsWithId(cases, f.case.id) ELSE @]

Returned(pc) == pc \in {"ret", "ret_none", "raise"}

\* ------------------------------------------------------------------ events
NoCall == [op |-> "none", by |-> "none", frame |-> Frame("idle", NoCase)]
NoTick == [outcome |-> "none", found |-> {}, removed |-> {}]
NoCmd == [name |-> "none", timed |-> FALSE, outcome |-> "none"]
\* A completed from_db: the class it was called on, its arguments, the rows
\* the store returned and the objects built from them.
NoQuery == [op |-> "none", cls |-> 0, get_type |-> FALSE, guild |-> "none",
            limit |-> NULL, filters |-> <<>>, rows |-> <<>>, result |-> <<>>,
            raised |-> FALSE]
NoEv == [call |-> NoCall, tick |-> NoTick, cmd |-> NoCmd, query |-> NoQuery]

CallEv(op, by, f) == [op |-> op, by |-> by, frame |-> f]
TickEv(outcome, found, removed) ==
    [outcome |-> outcome, found |-> found, removed |-> removed]
CmdEv(name, timed, outcome) == [name |-> name, timed |-> timed, outcome |-> outcome]

\* ------------------------------------------------------- tasks.loop objects
\* state: "off" (no task, or the task is done), "wait" (the task sleeps until
\* its next iteration), "body" (the task is suspended inside case_removal).
\* rows: the fetched rows not yet processed (the first is being deleted);
\* fetched: all rows the running tick fetched; f: the delete() in progress.
\* removed: the rows the running tick's DELETE statements removed.
\* tasks: the number of asyncio tasks of this Loop that are not done.
LoopOff == [state |-> "off", rows |-> <<>>, fetched |-> {}, removed |-> {},
            f |-> Frame("idle", NoCase), tasks |-> 0]
LoopWait == [LoopOff EXCEPT !.state = "wait", !.tasks = 1]

\* Loop.is_running()
is_running(l) == l.state # "off"
\* Loop.start(): a new task, whose first iteration is due at once.
start(l) == [LoopWait EXCEPT !.tasks = l.tasks + 1]
\* A restart that starts a new task and leaves the old one running.
restartNoCancel(l) == [LoopWait EXCEPT !.tasks = l.tasks + 1]
\* Loop.restart(): cancel the task, wherever it is suspended, and start again
\* when it is done.
restart(l) == [LoopWait EXCEPT !.tasks = (l.tasks - 1) + 1]
\* if self.case_removal.is_running(): restart() else: start()
EnsureRunning(l) == IF is_running(l) THEN restart(l) ELSE start(l)

\* -------------------------------------------------------------------- Init
IdleH == [cmd |-> "none", pc |-> "idle", f |-> Frame("idle", NoCase),
          field |-> "none", value |-> NULL, id |-> 0, guild |-> "none",
          user |-> "none", rows |-> <<>>]

\* The guild caches when the bot is ready: u1 is a member of g1; u2 is a
\* user known to the bot who is in neither guild.
Members0 == [g \in Guilds |-> IF g = "g1" THEN {"u1"} ELSE {}]

\* ---------------------------------------------------------------------------
\* Economy (src/cogs/economy.py): EconomyHelper and the commands that move
\* money.  Every user has a row in table economy (get_balance registers a
\* user it does not find, with cash 0 and bank 0, before anything else reads).
\* ---------------------------------------------------------------------------

EcoHandlers == {"e1", "e2"}
Wallets == {"cash", "bank"}
EcoCommands == {"pay", "deposit", "withdraw", "addmoney"}

\* cash and bank of a row, as get_balance(user_id, guild_id, None) returns them.
get_balance(t, user) == t[user]

Holdings(t, user) == t[user].cash + t[user].bank

\* One call of add_money or remove_money: its arguments, its locals, and the
\* await it is suspended at.
HelperCall(op, user, amount, wallet) ==
    [op |-> op, user |-> user, amount |-> amount, wallet |-> wallet,
     pc |-> "get_balance", cash |-> 0, bank |-> 0, need |-> 0,
     inner_cash |-> 0, inner_bank |-> 0, ret |-> 0,
     asked |-> amount, held |-> 0]

NoHelperCall == [HelperCall("none", "none", 0, "cash") EXCEPT !.pc = "none"]

\* UPDATE economy SET <wallet> = value WHERE user_id = user.
Update(t, user, wallet, value) ==
    IF wallet = "cash" THEN [t EXCEPT ![user].cash = value]
                       ELSE [t EXCEPT ![user].bank = value]

\* remove_money from its await of get_balance on: the next step of call c on
\* table t.  st is "run" while the call is suspended again, "return" when it
\* returned c.ret, "raise" when it raised ValueError.
remove_money(t, c) ==
    IF c.pc = "get_balance"
    THEN LET row == get_balance(t, c.user) IN
         IF c.wallet = "cash" /\ row.cash - c.amount < 0
         THEN [t |-> t, c |-> [c EXCEPT !.pc = "raised"], st |-> "raise"]
         ELSE [t |-> t,
               c |-> [c EXCEPT !.cash = row.cash, !.bank = row.bank,
                               !.held = row.cash + row.bank, !.pc = "UPDATE"],
               st |-> "run"]
    ELSE LET value == IF c.wallet = "cash" THEN c.cash - c.amount
                                           ELSE c.bank - c.amount IN
         [t |-> Update(t, c.user, c.wallet, value),
          c |-> [c EXCEPT !.ret = value, !.pc = "returned"],
          st |-> "return"]

\* add_money, one await at a time: get_balance; for a user in debt the nested
\* remove_money(user, -need, "bank") (its get_balance, then its UPDATE); then
\* the UPDATE of the chosen wallet from the locals read at the start.
add_money(t, c) ==
    CASE c.pc = "get_balance" ->
            LET row == get_balance(t, c.user)
                debt == row.bank < 0
                need == IF debt THEN -row.bank ELSE 0 IN
            [t |-> t,
             c |-> [c EXCEPT !.cash = row.cash, !.bank = row.bank,
                             !.held = row.cash + row.bank,
                             !.need = need, !.amount = c.amount - need,
                             !.pc = IF debt THEN "debt_get_balance" ELSE "UPDATE"],
             st |-> "run"]
      [] c.pc = "debt_get_balance" ->
            LET row == get_balance(t, c.user) IN
            [t |-> t,
             c |-> [c EXCEPT !.inner_cash = row.cash, !.inner_bank = row.bank,
                             !.pc = "debt_UPDATE"],
             st |-> "run"]
      [] c.pc = "debt_UPDATE" ->
            [t |-> Update(t, c.user, "bank", c.inner_bank - (-c.need)),
             c |-> [c EXCEPT !.pc = "UPDATE"],
             st |-> "run"]
      [] OTHER ->
            LET value == IF c.wallet = "cash" THEN c.cash + c.amount
                                              ELSE c.bank + c.amount IN
            [t |-> Update(t, c.user, c.wallet, value),
             c |-> [c EXCEPT !.ret = value, !.pc = "returned"],
             st |-> "return"]

HelperStep(t, c) == IF c.op = "add_money" THEN add_money(t, c) ELSE remove_money(t, c)

\* A command coroutine: todo holds the helper calls it still has to make, the
\* first of them in progress; last is the helper call that returned last, with
\* the holdings and the wallet balance of its user right after it; before and
\* after are the author's holdings when the command read them and when it ended.
IdleE ==
    [cmd |-> "none", pc |-> "idle", author |-> "none", member |-> "none",
     amount |-> 0, account |-> "cash", todo |-> <<>>,
     last |-> [call |-> NoHelperCall, held |-> 0, balance |-> 0],
     before |-> 0, after |-> 0, outcome |-> "none"]

EcoAtRest(e) == es[e].pc \in {"idle", "done"}

EconomyAtRest ==
    /\ economy = [u \in Users |-> [cash |-> 0, bank |-> 0]]
    /\ economy0 = economy
    /\ es = [e \in EcoHandlers |-> IdleE]

\* The helper calls a command makes once its checks passed, in order; <<>>
\* when a check sent an error message instead.
pay(t, f) ==
    IF f.amount < 1 \/ f.member = f.author \/ get_balance(t, f.author).cash < f.amount
    THEN <<>>
    ELSE << HelperCall("add_money", f.member, f.amount, "cash"),
            HelperCall("remove_money", f.author, f.amount, "cash") >>

deposit(t, f) ==
    IF f.amount < 1 \/ get_balance(t, f.author).cash < f.amount
    THEN <<>>
    ELSE << HelperCall("remove_money", f.author, f.amount, "cash"),
            HelperCall("add_money", f.author, f.amount, "bank") >>

withdraw(t, f) ==
    IF f.amount < 1 \/ get_balance(t, f.author).bank < f.amount
    THEN <<>>
    ELSE << HelperCall("remove_money", f.author, f.amount, "bank"),
            HelperCall("add_money", f.author, f.amount, "cash") >>

addmoney(t, f) ==
    IF f.amount > 0
    THEN << HelperCall("add_money", f.member, f.amount, f.account) >>
    ELSE <<>>

Calls(t, f) ==
    CASE f.cmd = "pay" -> pay(t, f)
      [] f.cmd = "deposit" -> deposit(t, f)
      [] f.cmd = "withdraw" -> withdraw(t, f)
      [] OTHER -> addmoney(t, f)

\* A user invokes an economy command; with seq, only when no other is running.
\* The invocations are numbered in the order in which they arrive.
EcoInvoke(e, cmd, author, member, amount, account) ==
    /\ es[e].pc = "idle"
    /\ e = "e2" => es["e1"].pc # "idle"
    /\ seq => \A o \in EcoHandlers : EcoAtRest(o)
    /\ es' = [es EXCEPT ![e] = [IdleE EXCEPT !.cmd = cmd, !.pc = "check",
                                             !.author = author, !.member = member,
                                             !.amount = amount, !.account = account]]
    /\ UNCHANGED <<faults, seq, modVars, economy, economy0>>

\* The command up to its first helper call: it reads the author's balance,
\* checks it, and either answers with an error or goes on.
EcoCheck(e) ==
    /\ es[e].pc = "check"
    /\ LET f == es[e]
           todo == Calls(economy, f) IN
       es' = [es EXCEPT ![e] =
                 IF todo = <<>>
                 THEN [f EXCEPT !.pc = "done", !.outcome = "refused",
                                !.before = Holdings(economy, f.author),
                                !.after = Holdings(economy, f.author)]
                 ELSE [f EXCEPT !.pc = "call", !.todo = todo,
                                !.before = Holdings(economy, f.author)]]
    /\ UNCHANGED <<faults, seq, modVars, economy, economy0>>

\* The helper call in progress runs to its next await; when it returns the
\* command makes its next call or sends its answer, when it raises the command
\* ends with the error (none of the commands catches ValueError).
EcoCall(e) ==
    /\ es[e].pc = "call"
    /\ LET f == es[e]
           r == HelperStep(economy, Head(f.todo))
           user == r.c.user
           rest == Tail(f.todo) IN
       /\ economy' = r.t
       /\ es' = [es EXCEPT ![e] =
                    CASE r.st = "run" ->
                            [f EXCEPT !.todo = <<r.c>> \o rest]
                      [] r.st = "raise" ->
                            [f EXCEPT !.todo = <<>>, !.pc = "done", !.outcome = "raised",
                                      !.after = Holdings(r.t, f.author)]
                      [] OTHER ->
                            [f EXCEPT !.todo = rest,
                                      !.last = [call |-> r.c,
                                                held |-> Holdings(r.t, user),
                                                balance |-> IF r.c.wallet = "cash"
                                                            THEN r.t[user].cash
                                                            ELSE r.t[user].bank],
                                      !.pc = IF rest = <<>> THEN "done" ELSE "call",
                                      !.outcome = IF rest = <<>> THEN "sent" ELSE "none",
                                      !.after = Holdings(r.t, f.author)]]
    /\ UNCHANGED <<faults, seq, modVars, economy0>>

InitWorld ==
    /\ EconomyAtRest
    /\ cases = {}
    /\ members = Members0
    /\ banned = [g \in Guilds |-> {}]
    /\ timedOut = [g \in Guilds |-> [u \in Users |-> NULL]]
    /\ now = 0
    /\ nextId = 1
    /\ loop = LoopOff
    /\ classLoop = "off"
    /\ hs = [h \in {"h1"} |-> IdleH]
    /\ ev = NoEv

Init == InitWorld /\ faults = TRUE /\ seq = FALSE

\* Whether a platform call succeeds: it can fail only in a run with faults.
Outcomes == IF faults THEN BOOLEAN ELSE {TRUE}

SetWorld(w) ==
    /\ cases' = w.cases
    /\ members' = w.members
    /\ banned' = w.banned
    /\ timedOut' = w.timedOut

\* ------------------------------------------------------------------ turns
\* In a run with seq, no command takes a step while the tick is inside a
\* delete(), and the tick's delete() takes no step while a command is inside
\* create() or delete().
TickInCall == loop.state = "body" /\ loop.f.log # <<>>
HandlerInCall ==
    \E h \in Handlers : hs[h].pc \in {"create", "delete"} /\ hs[h].f.log # <<>>
HandlerTurn == seq => ~TickInCall
TickTurn == seq => ~HandlerInCall

\* --------------------------------------------------------------- commands
\* The sequences that list each element of S once (the store's row order).
Orders(S) ==
    {q \in [1..Cardinality(S) -> S] : \A i, j \in 1..Cardinality(S) : i # j => q[i] # q[j]}

CmdName(cls) ==
    CASE cls = WARN -> "warn" [] cls = MUTE -> "mute"
      [] cls = KICK -> "kick" [] cls = BAN -> "ban"

\* The expires a command computes: now + duration, or None when the command
\* (warn, ban) is given none; kick has no expires, mute requires one.
ExpiresChoices(cls) ==
    LET timed == {now + d : d \in {x \in 1..MaxDur : now + x <= MaxTime}}
    IN  CASE cls = MUTE -> timed
          [] cls = KICK -> {NULL}
          [] OTHER -> timed \cup {NULL}

\* Moderation.warn / mute / kick / ban up to the call of create(): the
\* command builds the Case from its message and arguments.  warn, mute and
\* kick take a discord.Member (a member of the guild when converted), ban a
\* discord.User.
StartCreate(h, cls, g, u, e) ==
    /\ HandlerTurn
    /\ hs[h].pc = "idle"
    /\ nextId <= MaxMsgs
    /\ cls # BAN => u \in members[g]
    /\ e \in ExpiresChoices(cls)
    /\ hs' = [hs EXCEPT ![h] =
                [IdleH EXCEPT !.cmd = CmdName(cls), !.pc = "create",
                              !.f = Frame(CreateOrder[1],
                                          Case(cls, nextId, g, u, "mod", "r1", e, NoText))]]
    /\ nextId' = nextId + 1
    /\ ev' = NoEv
    /\ UNCHANGED <<faults, seq, ecoVars, cases, members, banned, timedOut, now, loop, classLoop>>

\* One step of Case.create inside a command; an exception leaves the command.
CreateCall(h) ==
    /\ HandlerTurn
    /\ hs[h].pc = "create"
    /\ \E ok \in Outcomes, dm \in BOOLEAN :
         LET f == hs[h].f
             r == CreateStep(f.case, f.pc, World, ok, dm)
             g == Advanced(f, CreateOrder, r)
         IN  /\ SetWorld(r.w)
             /\ IF r.pc = "raise"
                THEN /\ hs' = [hs EXCEPT ![h] = IdleH]
                     /\ ev' = [NoEv EXCEPT !.call = CallEv("create", h, g),
                                           !.cmd = CmdEv(hs[h].cmd, f.case.expires # NULL, "raised")]
                ELSE IF Returned(r.pc)
                THEN /\ hs' = [hs EXCEPT ![h].pc = "send", ![h].f = g]
                     /\ ev' = [NoEv EXCEPT !.call = CallEv("create", h, g)]
                ELSE /\ hs' = [hs EXCEPT ![h].f = g]
                     /\ ev' = NoEv
    /\ UNCHANGED <<faults, seq, ecoVars, now, nextId, loop, classLoop>>

\* The end of warn / mute / kick / ban: ctx.send has answered, then
\* if self.case_removal.is_running(): restart() else: start().
FinishCreate(h) ==
    /\ HandlerTurn
    /\ hs[h].pc = "send"
    /\ hs[h].cmd \in {"warn", "mute", "kick", "ban"}
    /\ loop' = EnsureRunning(loop)
    /\ hs' = [hs EXCEPT ![h] = IdleH]
    /\ ev' = [NoEv EXCEPT !.cmd = CmdEv(hs[h].cmd, hs[h].f.case.expires # NULL, "done")]
    /\ UNCHANGED <<faults, seq, ecoVars, cases, members, banned, timedOut, now, nextId, classLoop>>

\* SELECT * FROM cases WHERE case_id = $1 AND guild_id = $2
from_id_rows(id, g) == {r \in cases : r.case_id = id /\ r.guild_id = g}

\* The case ids a moderator may name: those of the run's messages and those
\* of the cases stored before it.
LookupIds == (1..MaxMsgs) \cup {r.case_id : r \in cases}

\* Cases.delete / Cases.edit up to their first await: the moderator names a
\* guild and a case id.
Lookup(cmd, g, id, field) ==
    [IdleH EXCEPT !.cmd = cmd, !.pc = "from_id", !.id = id, !.guild = g, !.field = field]

StartLookup(h, cmd, g, id, field) ==
    /\ HandlerTurn
    /\ hs[h].pc = "idle"
    /\ nextId <= MaxMsgs
    /\ cmd \in {"delete", "edit"}
    /\ field \in (IF cmd = "edit" THEN {"expires", "reason", "message"} ELSE {"none"})
    /\ hs' = [hs EXCEPT ![h] = Lookup(cmd, g, id, field)]
    /\ nextId' = nextId + 1
    /\ ev' = NoEv
    /\ UNCHANGED <<faults, seq, ecoVars, cases, members, banned, timedOut, now, loop, classLoop>>

\* Cases.delete: case = await Case.from_id(..., get_type=True); not found
\* ends the command, else the command goes on to the typed from_id.
DeleteFromId(h) ==
    /\ HandlerTurn
    /\ hs[h].cmd = "delete" /\ hs[h].pc = "from_id"
    /\ IF from_id_rows(hs[h].id, hs[h].guild) = {}
       THEN /\ hs' = [hs EXCEPT ![h] = IdleH]
            /\ ev' = [NoEv EXCEPT !.cmd = CmdEv("delete", FALSE, "not_found")]
       ELSE /\ \E row \in from_id_rows(hs[h].id, hs[h].guild) :
                 hs' = [hs EXCEPT ![h].pc = "from_id_typed",
                                  ![h].f = Frame("idle", from_dict(0, row))]
            /\ ev' = NoEv
    /\ UNCHANGED <<faults, seq, ecoVars, cases, members, banned, timedOut, now, nextId, loop, classLoop>>

\* Cases.delete: case = await Warn/Mute/Kick/Ban.from_id(...), chosen by the
\* type read before; case._custom_response = ... raises on None when the row
\* has gone meanwhile.  Then delete() begins.
DeleteFromIdTyped(h) ==
    /\ HandlerTurn
    /\ hs[h].cmd = "delete" /\ hs[h].pc = "from_id_typed"
    /\ IF from_id_rows(hs[h].id, hs[h].guild) = {}
       THEN /\ hs' = [hs EXCEPT ![h] = IdleH]
            /\ ev' = [NoEv EXCEPT !.cmd = CmdEv("delete", FALSE, "raised")]
       ELSE /\ \E row \in from_id_rows(hs[h].id, hs[h].guild) :
                 hs' = [hs EXCEPT ![h].pc = "delete",
                                  ![h].f = Frame(DeleteOrder[1],
                                                 from_dict(hs[h].f.case.type, row))]
            /\ ev' = NoEv
    /\ UNCHANGED <<faults, seq, ecoVars, cases, members, banned, timedOut, now, nextId, loop, classLoop>>

\* One step of Case.delete inside Cases.delete or Moderation.unban (which
\* deletes the cases it fetched one after the other).
DeleteCall(h) ==
    /\ HandlerTurn
    /\ hs[h].pc = "delete"
    /\ \E ok \in Outcomes, dm \in BOOLEAN :
         LET f == hs[h].f
             r == DeleteStep(f.case, f.pc, World, ok, dm)
             g == Advanced(f, DeleteOrder, r)
         IN  /\ SetWorld(r.w)
             /\ IF r.pc = "raise"
                THEN /\ hs' = [hs EXCEPT ![h] = IdleH]
                     /\ ev' = [NoEv EXCEPT !.call = CallEv("delete", h, g),
                                           !.cmd = CmdEv(hs[h].cmd, FALSE, "raised")]
                ELSE IF Returned(r.pc)
                THEN /\ hs' = IF hs[h].rows = <<>>
                              THEN [hs EXCEPT ![h].pc = "send", ![h].f = g]
                              ELSE [hs EXCEPT ![h].rows = Tail(@),
                                     ![h].f = Frame(DeleteOrder[1],
                                                    from_db_case(BAN, Head(hs[h].rows)))]
                     /\ ev' = [NoEv EXCEPT !.call = CallEv("delete", h, g)]
                ELSE /\ hs' = [hs EXCEPT ![h].f = g]
                     /\ ev' = NoEv
    /\ UNCHANGED <<faults, seq, ecoVars, now, nextId, loop, classLoop>>

\* The end of Cases.delete: ctx.send has answered; the scheduler is not touched.
FinishDelete(h) ==
    /\ HandlerTurn
    /\ hs[h].pc = "send" /\ hs[h].cmd = "delete"
    /\ hs' = [hs EXCEPT ![h] = IdleH]
    /\ ev' = [NoEv EXCEPT !.cmd = CmdEv("delete", FALSE, "done")]
    /\ UNCHANGED <<faults, seq, ecoVars, cases, members, banned, timedOut, now, nextId, loop, classLoop>>

\* Moderation.unban up to its first await.
StartUnban(h, g, u) ==
    /\ HandlerTurn
    /\ hs[h].pc = "idle"
    /\ nextId <= MaxMsgs
    /\ hs' = [hs EXCEPT ![h] =
                [IdleH EXCEPT !.cmd = "unban", !.pc = "from_db", !.guild = g, !.user = u]]
    /\ nextId' = nextId + 1
    /\ ev' = NoEv
    /\ UNCHANGED <<faults, seq, ecoVars, cases, members, banned, timedOut, now, loop, classLoop>>

\* convert_to_query("cases", guild, None, user=user):
\* SELECT * FROM cases WHERE user_id = $1 AND guild_id = $2
from_db_rows(g, u) == {r \in cases : r.user_id = u /\ r.guild_id = g}

\* cases = await Ban.from_db(db, client, ctx.guild, user=user): the objects are
\* all built here; `if cases:` the first delete() begins, else the command
\* unbans directly.
UnbanFromDb(h) ==
    /\ HandlerTurn
    /\ hs[h].cmd = "unban" /\ hs[h].pc = "from_db"
    /\ IF from_db_rows(hs[h].guild, hs[h].user) = {}
       THEN hs' = [hs EXCEPT ![h].pc = "unban"]
       ELSE \E q \in Orders(from_db_rows(hs[h].guild, hs[h].user)) :
               hs' = [hs EXCEPT ![h].pc = "delete", ![h].rows = Tail(q),
                                ![h].f = Frame(DeleteOrder[1], from_db_case(BAN, q[1]))]
    /\ ev' = NoEv
    /\ UNCHANGED <<faults, seq, ecoVars, cases, members, banned, timedOut, now, nextId, loop, classLoop>>

\* else: await ctx.guild.unban(user), discord.NotFound swallowed.
UnbanDirect(h) ==
    /\ HandlerTurn
    /\ hs[h].cmd = "unban" /\ hs[h].pc = "unban"
    /\ \E ok \in Outcomes :
         LET r == UnbanUser(World, [guild |-> hs[h].guild, user |-> hs[h].user], ok)
         IN  /\ SetWorld(r.w)
             /\ IF r.raised
                THEN /\ hs' = [hs EXCEPT ![h] = IdleH]
                     /\ ev' = [NoEv EXCEPT !.cmd = CmdEv("unban", FALSE, "raised")]
                ELSE /\ hs' = [hs EXCEPT ![h].pc = "send"]
                     /\ ev' = NoEv
    /\ UNCHANGED <<faults, seq, ecoVars, now, nextId, loop, classLoop>>

\* The end of Moderation.unban: ctx.send has answered, then
\* if self.case_removal.is_running(): restart() else: start().
FinishUnban(h) ==
    /\ HandlerTurn
    /\ hs[h].pc = "send" /\ hs[h].cmd = "unban"
    /\ loop' = EnsureRunning(loop)
    /\ hs' = [hs EXCEPT ![h] = IdleH]
    /\ ev' = [NoEv EXCEPT !.cmd = CmdEv("unban", FALSE, "done")]
    /\ UNCHANGED <<faults, seq, ecoVars, cases, members, banned, timedOut, now, nextId, classLoop>>

\* Cases.edit: case = await Case.from_id(...); new_case = case.copy();
\* setattr(new_case, value, new_value).  The command keeps new_case (in f).
NewValues(field) ==
    CASE field = "expires" -> {now + d : d \in {x \in 1..MaxDur : now + x <= MaxTime}}
      [] OTHER -> {NULL}

EditFromId(h) ==
    /\ HandlerTurn
    /\ hs[h].cmd = "edit" /\ hs[h].pc = "from_id"
    /\ IF from_id_rows(hs[h].id, hs[h].guild) = {}
       THEN /\ hs' = [hs EXCEPT ![h] = IdleH]
            /\ ev' = [NoEv EXCEPT !.cmd = CmdEv("edit", FALSE, "not_found")]
       ELSE /\ NewValues(hs[h].field) # {}
            /\ \E row \in from_id_rows(hs[h].id, hs[h].guild), v \in NewValues(hs[h].field) :
                 LET c == from_dict(0, row)
                     n == CASE hs[h].field = "expires" -> [c EXCEPT !.expires = v]
                            [] hs[h].field = "reason" -> [c EXCEPT !.reason = "r2"]
                            [] hs[h].field = "message" -> [c EXCEPT !.message = "m2"]
                 IN  hs' = [hs EXCEPT ![h].pc = "UPDATE",
                                      ![h].f = [Frame("idle", n) EXCEPT !.before = {row}]]
            /\ ev' = NoEv
    /\ UNCHANGED <<faults, seq, ecoVars, cases, members, banned, timedOut, now, nextId, loop, classLoop>>

\* An UPDATE that writes the reason and the message only and clears expires.
UpdateRowsClearsExpires(rows, n) ==
    {IF r.case_id = n.id
     THEN [r EXCEPT !.reason = n.reason, !.expires = NULL, !.message = n.message]
     ELSE r : r \in rows}

\* Case.edit: UPDATE cases SET user_id = $1, reason = $2, expires = $3,
\* message = $4 WHERE case_id = $5
UpdateRows(rows, n) ==
    {IF r.case_id = n.id
     THEN [r EXCEPT !.user_id = n.user, !.reason = n.reason,
                    !.expires = n.expires, !.message = n.message]
     ELSE r : r \in rows}

EditUpdate(h) ==
    /\ HandlerTurn
    /\ hs[h].cmd = "edit" /\ hs[h].pc = "UPDATE"
    /\ cases' = UpdateRows(cases, hs[h].f.case)
    /\ hs' = [hs EXCEPT ![h].pc = "send"]
    /\ ev' = [NoEv EXCEPT !.call =
                 CallEv("edit", h, [hs[h].f EXCEPT !.log = <<"UPDATE">>,
                                      !.before = RowsWithId(cases, hs[h].f.case.id)])]
    /\ UNCHANGED <<faults, seq, ecoVars, members, banned, timedOut, now, nextId, loop, classLoop>>

\* (The event of the UPDATE holds new_case and the rows stored under its id
\* just before the statement; the command's frame keeps the row it read.)
\* The end of Cases.edit: if Moderation.case_removal.is_running(): restart()
\* else: start() -- on the Loop object of the class, not of the cog instance.
FinishEdit(h) ==
    /\ HandlerTurn
    /\ hs[h].pc = "send" /\ hs[h].cmd = "edit"
    /\ classLoop' = "launched"
    /\ hs' = [hs EXCEPT ![h] = IdleH]
    /\ ev' = [NoEv EXCEPT !.cmd = CmdEv("edit", hs[h].field = "expires", "done")]
    /\ UNCHANGED <<faults, seq, ecoVars, cases, members, banned, timedOut, now, nextId, loop>>

\* The task of the class-level Loop: it has no cog instance to pass
\* (_injected is None), so before_case_removal() raises TypeError and the
\* task ends before any iteration.
ClassLoopFails ==
    /\ classLoop = "launched"
    /\ classLoop' = "off"
    /\ ev' = NoEv
    /\ UNCHANGED <<faults, seq, ecoVars, cases, members, banned, timedOut, now, nextId, loop, hs>>

\* ------------------------------------------------------------ Case.from_db
\* convert_to_query("cases", guild, limit, **filters): a filter whose value is
\* a discord object (user, moderator) becomes `<key>_id = value.id`, any other
\* `<key> = value`; `if guild:` adds guild_id; `if limit is not None:` adds
\* LIMIT.  filters is the sequence of the keyword arguments <<key, value>>;
\* None is "none" for the guild and NULL for the limit.
ObjectKeys == {"user", "moderator"}

processed_filters(guild, filters) ==
    [i \in 1..Len(filters) |->
        IF filters[i][1] \in ObjectKeys
        THEN <<filters[i][1] \o "_id", filters[i][2]>>
        ELSE filters[i]]
    \o (IF guild # "none" THEN << <<"guild_id", guild>> >> ELSE <<>>)

\* A query builder that tests the limit for truth: LIMIT 0 is left out.
convert_to_queryTruthyLimit(guild, limit, filters) ==
    [where |-> processed_filters(guild, filters),
     limited |-> limit # NULL /\ limit # 0, limit |-> limit]

convert_to_query(guild, limit, filters) ==
    [where |-> processed_filters(guild, filters),
     limited |-> limit # NULL, limit |-> limit]

\* The value of a column of a row.
Column(r, col) ==
    CASE col = "user_id" -> r.user_id
      [] col = "moderator_id" -> r.moderator_id
      [] col = "guild_id" -> r.guild_id
      [] col = "case_id" -> r.case_id
      [] col = "expires" -> r.expires
      [] col = "reason" -> r.reason

\* WHERE c1 = $1 AND c2 = $2 ...: a comparison with NULL (expires is the
\* column that can hold it) is never true; no clause is `1=1`.
IsNull(col, v) == col = "expires" /\ v = NULL

Where(r, q) ==
    \A i \in 1..Len(q.where) :
       /\ ~IsNull(q.where[i][1], Column(r, q.where[i][1]))
       /\ ~IsNull(q.where[i][1], q.where[i][2])
       /\ Column(r, q.where[i][1]) = q.where[i][2]

Min(a, b) == IF a <= b THEN a ELSE b

\* db.fetch(query, *query_parameters): the rows the WHERE clause selects, in
\* the order the store gives them (there is no ORDER BY); with LIMIT n, any n
\* of them, all of them when there are fewer.
fetch(rows, q) ==
    LET sel == {r \in rows : Where(r, q)}
        n == IF q.limited THEN Min(q.limit, Cardinality(sel)) ELSE Cardinality(sel)
    IN  UNION {Orders(T) : T \in {S \in SUBSET sel : Cardinality(S) = n}}

\* The keyword arguments of a call that filters by user and / or expires.
Kwargs(u, e) ==
    (IF u # "none" THEN << <<"user", u>> >> ELSE <<>>)
    \o (IF e # NULL THEN << <<"expires", e>> >> ELSE <<>>)

\* The tables of the runs that query: under each of MaxRows message ids there
\* is no case, or a Warn given in some guild to some user with some expires.
StoredWarn(id, g, u, e) == RowOf(Case(WARN, id, g, u, "mod", "r1", e, NoText))

RowChoices ==
    {<<g, u, e>> : g \in Guilds, u \in Users, e \in 1..MaxTime} \cup {<<"none", "none", 0>>}

Tables ==
    {{StoredWarn(id, c[id][1], c[id][2], c[id][3]) :
         id \in {i \in 1..MaxRows : c[i][1] # "none"}} :
            c \in [1..MaxRows -> RowChoices]}

\* cls.from_db(db, client, guild, limit=limit, get_type=get_type, **filters),
\* as `case list` (Case.from_user, get_type=True), unmute (Mute.from_db with
\* user and expires) and unban (Ban.from_db with user) call it: the query, the
\* fetch, and the objects built from the rows (TypeError when from_dict is
\* given the wrong get_type for its class and there is a row to build).  The
\* command that calls it came in a message of its own.
FromDb(cls, get_type, g, limit, u, e) ==
    /\ \A h \in Handlers : hs[h].pc = "idle"
    /\ nextId <= MaxRows + 1
    /\ nextId' = nextId + 1
    /\ \E rows \in fetch(cases, convert_to_query(g, limit, Kwargs(u, e))) :
         LET raises == rows # <<>> /\ from_db_raises(cls, get_type)
         IN  ev' = [NoEv EXCEPT !.query =
                       [op |-> "from_db", cls |-> cls, get_type |-> get_type,
                        guild |-> g, limit |-> limit, filters |-> Kwargs(u, e),
                        rows |-> rows,
                        result |-> IF raises THEN <<>>
                                   ELSE [i \in 1..Len(rows) |-> from_db_case(cls, rows[i])],
                        raised |-> raises]]
    /\ UNCHANGED <<faults, seq, ecoVars, cases, members, banned, timedOut, now, loop, classLoop, hs>>

\* ------------------------------------------------- Moderation.case_removal
\* SELECT * FROM cases WHERE expires IS NOT NULL AND expires <= $1
DueRows(rows, t) == {r \in rows : r.expires # NULL /\ r.expires <= t}

\* The typed Case the tick builds from a row: Warn/Mute/Kick/Ban.from_dict.
TickCase(row) == from_dict(row.type, row)

\* if not case_rows: return -- the loop goes on to its next iteration.
AfterEmptyFetch(l) == l

\* A tick that forgets to stop after its last row.
AfterLastRowNoStop(l) == LoopWait

\* self.case_removal.stop() after the last row: the task ends with this
\* iteration.
AfterLastRow(l) == LoopOff

\* An exception leaves case_removal: the task ends.
AfterException(l) == LoopOff

\* An iteration begins: the fetch.  No due row: return, the task sleeps until
\* the next iteration.  Else the loop over the rows starts.
TickFetch ==
    /\ loop.state = "wait"
    /\ LET due == DueRows(cases, now)
       IN  IF due = {}
           THEN /\ loop' = AfterEmptyFetch(loop)
                /\ ev' = [NoEv EXCEPT !.tick = TickEv("empty", {}, {})]
           ELSE /\ \E q \in Orders(due) :
                     loop' = [loop EXCEPT !.state = "body", !.rows = q,
                                          !.fetched = due, !.removed = {},
                                          !.f = Frame(DeleteOrder[1], TickCase(q[1]))]
                /\ ev' = NoEv
    /\ UNCHANGED <<faults, seq, ecoVars, cases, members, banned, timedOut, now, nextId, classLoop, hs>>

\* One step of case.delete() for the current row.  When the call returns the
\* loop goes to the next row; after the last one, self.case_removal.stop()
\* and the task ends.  An exception ends the task.
TickStep ==
    /\ TickTurn
    /\ loop.state = "body"
    /\ \E ok \in Outcomes, dm \in BOOLEAN :
         LET f == loop.f
             r == DeleteStep(f.case, f.pc, World, ok, dm)
             g == Advanced(f, DeleteOrder, r)
             rest == Tail(loop.rows)
             gone == loop.removed \cup (cases \ r.w.cases)
         IN  /\ SetWorld(r.w)
             /\ IF r.pc = "raise"
                THEN /\ loop' = AfterException(loop)
                     /\ ev' = [NoEv EXCEPT !.call = CallEv("delete", "tick", g),
                                           !.tick = TickEv("raised", loop.fetched, gone)]
                ELSE IF Returned(r.pc)
                THEN IF rest = <<>>
                     THEN /\ loop' = AfterLastRow(loop)
                          /\ ev' = [NoEv EXCEPT !.call = CallEv("delete", "tick", g),
                                                !.tick = TickEv("stopped", loop.fetched, gone)]
                     ELSE /\ loop' = [loop EXCEPT !.rows = rest, !.removed = gone,
                                        !.f = Frame(DeleteOrder[1], TickCase(rest[1]))]
                          /\ ev' = [NoEv EXCEPT !.call = CallEv("delete", "tick", g)]
                ELSE /\ loop' = [loop EXCEPT !.f = g, !.removed = gone]
                     /\ ev' = NoEv
    /\ UNCHANGED <<faults, seq, ecoVars, now, nextId, classLoop, hs>>

\* ------------------------------------------------------------- environment
Advance ==
    /\ now < MaxTime
    /\ now' = now + 1
    /\ ev' = NoEv
    /\ UNCHANGED <<faults, seq, ecoVars, cases, members, banned, timedOut, nextId, loop, classLoop, hs>>

\* A member leaves the guild of their own accord.
Leave(g, u) ==
    /\ u \in members[g]
    /\ members' = [members EXCEPT ![g] = @ \ {u}]
    /\ ev' = NoEv
    /\ UNCHANGED <<faults, seq, ecoVars, cases, banned, timedOut, now, nextId, loop, classLoop, hs>>

\* -------------------------------------------------------------------- Next
Next ==
    \/ \E h \in Handlers, cls \in CaseTypes, g \in Guilds, u \in Users, e \in (0..MaxTime) \cup {NULL} :
          StartCreate(h, cls, g, u, e)
    \/ \E h \in Handlers : CreateCall(h)
    \/ \E h \in Handlers : FinishCreate(h)
    \/ \E h \in Handlers, cmd \in {"delete", "edit"}, g \in Guilds, id \in LookupIds,
          field \in {"none", "expires", "reason", "message"} :
          StartLookup(h, cmd, g, id, field)
    \/ \E h \in Handlers : DeleteFromId(h)
    \/ \E h \in Handlers : DeleteFromIdTyped(h)
    \/ \E h \in Handlers : DeleteCall(h)
    \/ \E h \in Handlers : FinishDelete(h)
    \/ \E h \in Handlers, g \in Guilds, u \in Users : StartUnban(h, g, u)
    \/ \E h \in Handlers : UnbanFromDb(h)
    \/ \E h \in Handlers : UnbanDirect(h)
    \/ \E h \in Handlers : FinishUnban(h)
    \/ \E h \in Handlers : EditFromId(h)
    \/ \E h \in Handlers : EditUpdate(h)
    \/ \E h \in Handlers : FinishEdit(h)
    \/ ClassLoopFails
    \/ TickFetch
    \/ TickStep
    \/ Advance
    \/ \E g \in Guilds, u \in Users : Leave(g, u)

Spec == Init /\ [][Next]_vars

\* The same program in a run where no platform call fails, with the
\* scheduling asyncio gives: a task that can run does run (the loop's
\* iterations, the steps of a tick), and time passes.
InitNoFaults == InitWorld /\ faults = FALSE /\ seq = FALSE

FairSpec ==
    /\ InitNoFaults /\ [][Next]_vars
    /\ WF_vars(TickFetch)
    /\ WF_vars(TickStep)
    /\ WF_vars(Advance)

\* The same program in a run where the calls of create() and delete() run one
\* at a time.  Time passes and members leave at any point, and any call may
\* fail.
InitSeq == InitWorld /\ faults = TRUE /\ seq = TRUE

SeqSpec == InitSeq /\ [][Next]_vars

\* The program some time after it has started: a mute of u1 in g1 until time
\* 1, given in message 0, has completed (the row is stored, the target timed
\* out, the scheduler started) and the mute has just expired; the next
\* message is message `next`, and the command invocations are as in `h0`.
Mute0 == Case(MUTE, 0, "g1", "u1", "mod", "r1", 1, NoText)

AfterMute(h0, table, next) ==
    /\ EconomyAtRest
    /\ cases = table
    /\ members = Members0
    /\ banned = [g \in Guilds |-> {}]
    /\ timedOut = [g \in Guilds |-> [u \in Users |->
                       IF g = Mute0.guild /\ u = Mute0.user THEN Mute0.expires ELSE NULL]]
    /\ now = Mute0.expires
    /\ nextId = next
    /\ loop = start(LoopOff)
    /\ classLoop = "off"
    /\ hs = h0
    /\ ev = NoEv

\* Two moderators' commands in progress at once: one moderator has just sent
\* `case delete` or `case edit` for the mute (message 1), and a second one
\* can send a command of their own.  No platform call fails.
ConcInit ==
    /\ \E cmd \in {"delete", "edit"}, field \in {"none", "reason"} :
          /\ field = "none" <=> cmd = "delete"
          /\ AfterMute([h \in {"h1", "h2"} |->
                           IF h = "h2" THEN Lookup(cmd, Mute0.guild, Mute0.id, field)
                           ELSE IdleH],
                       {RowOf(Mute0)}, MaxMsgs)
    /\ faults = FALSE /\ seq = FALSE

ConcSpec == ConcInit /\ [][Next]_vars

\* A table in which another guild holds a case under the same id (a warn of
\* u2 in g2, who has left since): case ids are unique within a guild only.
Warn0 == Case(WARN, 0, "g2", "u2", "mod", "r1", NULL, NoText)
SharedIdTable == {RowOf(Mute0), RowOf(Warn0)}

SharedIdInit == AfterMute([h \in {"h1"} |-> IdleH], SharedIdTable, MaxMsgs) /\ faults = FALSE /\ seq = FALSE

SharedIdSpec == SharedIdInit /\ [][Next]_vars

\* The queries of from_db on a table that earlier commands have filled: each
\* of the callers' forms, for every guild, filter and limit.
QueryInit ==
    /\ EconomyAtRest
    /\ cases \in Tables
    /\ members = Members0
    /\ banned = [g \in Guilds |-> {}]
    /\ timedOut = [g \in Guilds |-> [u \in Users |-> NULL]]
    /\ now = 0
    /\ nextId = MaxRows + 1
    /\ loop = LoopOff
    /\ classLoop = "off"
    /\ hs = [h \in {"h1"} |-> IdleH]
    /\ ev = NoEv
    /\ faults = FALSE /\ seq = FALSE

QueryNext ==
    \E cls \in {0, MUTE, BAN}, get_type \in BOOLEAN, g \in Guilds \cup {"none"},
       limit \in {NULL} \cup (0..MaxLimit), u \in Users \cup {"none"},
       e \in {NULL} \cup (1..MaxTime) :
          /\ get_type = (cls = 0)
          /\ FromDb(cls, get_type, g, limit, u, e)

QuerySpec == QueryInit /\ [][QueryNext]_vars

\* ---------------------------------------------------------------------------
\* The economy commands alone: the run starts from any table of balances and
\* two invocations, one command each, one at a time (seq) or interleaved.
\* ---------------------------------------------------------------------------

Balances == [cash : 0..MaxCash, bank : (-MaxDebt)..MaxCash]

EcoInit ==
    /\ cases = {}
    /\ members = Members0
    /\ banned = [g \in Guilds |-> {}]
    /\ timedOut = [g \in Guilds |-> [u \in Users |-> NULL]]
    /\ now = 0
    /\ nextId = 1
    /\ loop = LoopOff
    /\ classLoop = "off"
    /\ hs = [h \in {"h1"} |-> IdleH]
    /\ ev = NoEv
    /\ faults = FALSE
    /\ seq \in BOOLEAN
    /\ economy \in [Users -> Balances]
    /\ economy0 = economy
    /\ es = [e \in EcoHandlers |-> IdleE]

\* Only pay names a second user; for the other commands author is the user
\* whose row the command works on.
EcoNext ==
    \/ \E e \in EcoHandlers, cmd \in EcoCommands, author \in Users, member \in Users,
          amount \in 1..MaxAmount, account \in Wallets :
          /\ cmd # "pay" => member = author
          /\ cmd # "addmoney" => account = "cash"
          /\ EcoInvoke(e, cmd, author, member, amount, account)
    \/ \E e \in EcoHandlers : EcoCheck(e)
    \/ \E e \in EcoHandlers : EcoCall(e)

EcoSpec == EcoInit /\ [][EcoNext]_vars

\* ------------------------------------------------------------------ claims
CreateCmds == {"warn", "mute", "kick", "ban"}

\* The create() calls in progress or just returned, and the delete() calls.
CreateFrames ==
    {hs[h].f : h \in {x \in Handlers : hs[x].cmd \in CreateCmds /\ hs[x].pc \in {"create", "send"}}}
    \cup (IF ev.call.op = "create" THEN {ev.call.frame} ELSE {})

DeleteFrames ==
    {hs[h].f : h \in {x \in Handlers : hs[x].cmd \in {"delete", "unban"}
                                         /\ hs[x].pc \in {"delete", "send"}
                                         /\ hs[x].f.pc # "idle"}}
    \cup (IF loop.state = "body" THEN {loop.f} ELSE {})
    \cup (IF ev.call.op = "delete" THEN {ev.call.frame} ELSE {})

\* The steps of the four phases in a call's log, without the platform actions.
PhaseNames ==
    {"check", "before_creation", "INSERT", "after_creation",
     "before_deletion", "DELETE", "after_deletion"}
Phases(log) == SelectSeq(log, LAMBDA x : x \in PhaseNames)
IsPrefix(a, b) == Len(a) <= Len(b) /\ SubSeq(b, 1, Len(a)) = a

\* C1: create() on a target that is not a member of the guild, for every
\* kind: the call returns None without raising, runs no hook and no platform
\* action (its log holds the check alone), and writes no row under its id.
C1_CreateNonMemberIsNoOp ==
    /\ \A f \in CreateFrames :
          (f.log # <<>> /\ ~f.wasMember) => (f.pc = "ret_none" /\ f.log = <<"check">>)
    /\ (ev.call.op = "create" /\ ~ev.call.frame.wasMember) =>
          RowsWithId(cases, ev.call.frame.case.id) = {}

C1_Witness ==
    /\ ev.call.op = "create"
    /\ ev.call.frame.pc = "ret_none"
    /\ ev.call.frame.case.cls = MUTE

\* C2: a stored case with an expires whose target stays a member is
\* eventually deleted by the scheduler without a further command: from any
\* state with such a case and no command in progress, the case goes (or its
\* target leaves, or a command is issued).
Pending(id) ==
    \E r \in cases : r.case_id = id /\ r.expires # NULL /\ r.user_id \in members[r.guild_id]
Quiet == \A h \in Handlers : hs[h].pc = "idle"

C2_TimedCaseEventuallyDeleted ==
    \A id \in 1..MaxMsgs : (Pending(id) /\ Quiet) ~> (~Pending(id) \/ ~Quiet)

\* C3: right after a tick has stopped the scheduler, no stored row has an
\* expires that is still in the future.
C3_StopsOnlyWhenNonePending ==
    ev.tick.outcome = "stopped" => \A r \in cases : r.expires = NULL \/ r.expires <= now

\* C4 as stated: every tick ends with the scheduler Idle, whether it found
\* no expired case or some.
C4_EveryTickEndsIdle ==
    ev.tick.outcome # "none" => ~is_running(loop)

\* C4 as amended: a tick that found one or more expired cases ends with the
\* scheduler Idle (stopped after the last case, or ended by the exception a
\* deletion raised); a tick that found none ends with the scheduler Running.
C4_TickEndsIdleIffFound ==
    ev.tick.outcome # "none" => (is_running(loop) <=> ev.tick.found = {})

C4_Witness ==
    /\ ev.tick.outcome = "stopped"
    /\ ev.tick.removed # {}
    /\ ~is_running(loop)

\* C5: once a timed Ban created on a member has expired, a tick, or a
\* delete() of the case, that runs to its end leaves the target unbanned and
\* the Ban row removed.
C5_ExpiredBanIsLifted ==
    /\ ev.tick.outcome = "stopped" =>
          \A r \in ev.tick.found :
             r.type = BAN => (r \notin cases /\ r.user_id \notin banned[r.guild_id])
    /\ (ev.call.op = "delete" /\ ev.call.frame.pc \in {"ret", "ret_none"}
          /\ ev.call.frame.case.cls = BAN /\ ev.call.frame.case.expires # NULL
          /\ ev.call.frame.case.expires <= now) =>
          /\ RowsWithId(cases, ev.call.frame.case.id) = {}
          /\ ev.call.frame.case.user \notin banned[ev.call.frame.case.guild]

\* C6: when a tick ends it has deleted exactly the rows it found due whose
\* target is a member of the guild: each of those is gone, and it removed
\* nothing else (no row that was not due, no row whose expires is None).
C6_TickDeletesExactlyDue ==
    ev.tick.outcome \in {"stopped", "raised"} =>
       /\ \A r \in ev.tick.found : r.user_id \in members[r.guild_id] => r \notin cases
       /\ \A r \in ev.tick.removed :
             r.expires # NULL /\ \E d \in ev.tick.found : d.case_id = r.case_id

\* C7: when deleting one due case raises, every other due case of the same
\* tick whose target is a member is still deleted.
C7_FailureDoesNotStopTheTick ==
    ev.tick.outcome = "raised" =>
       \A r \in ev.tick.found :
          (r.case_id # ev.call.frame.case.id /\ r.user_id \in members[r.guild_id])
             => r \notin cases

\* C8: when warn, mute or ban with a duration has completed, and when a case
\* edit that sets expires has completed, the scheduler is Running.
C8_TimedCommandLeavesSchedulerRunning ==
    (ev.cmd.outcome = "done" /\ ev.cmd.timed
        /\ ev.cmd.name \in {"warn", "mute", "ban", "edit"}) => is_running(loop)

\* C9: the steps of one create() or delete() run in the order check, before
\* hook, store write, after hook: the log of every call is a prefix of that
\* order, a call that returned its case ran all four, and the row of a
\* create() is not in the store until its INSERT step.
DocumentedCreate == <<"check", "before_creation", "INSERT", "after_creation">>
DocumentedDelete == <<"check", "before_deletion", "DELETE", "after_deletion">>

C9_StepsInDocumentedOrder ==
    /\ \A f \in CreateFrames :
          /\ IsPrefix(Phases(f.log), DocumentedCreate)
          /\ f.pc = "ret" => Phases(f.log) = DocumentedCreate
          /\ (f.pc \in {"check", "before_creation"} /\ f.before = {}) =>
                RowsWithId(cases, f.case.id) = {}
    /\ \A f \in DeleteFrames :
          /\ IsPrefix(Phases(f.log), DocumentedDelete)
          /\ f.pc = "ret" => Phases(f.log) = DocumentedDelete

C9_Witness ==
    /\ ev.call.op = "delete"
    /\ ev.call.frame.pc = "ret"
    /\ ev.call.frame.case.cls = MUTE
    /\ "remove_timeout" \in {ev.call.frame.log[i] : i \in 1..Len(ev.call.frame.log)}

\* C10: delete() on a case whose target is no longer a member is a no-op:
\* it returns after the check with no hook run, and the rows stored under
\* the case's id are those that were there before the call.
C10_DeleteNonMemberIsNoOp ==
    /\ \A f \in DeleteFrames :
          (f.log # <<>> /\ ~f.wasMember) => (f.pc = "ret_none" /\ f.log = <<"check">>)
    /\ (ev.call.op = "delete" /\ ~ev.call.frame.wasMember) =>
          RowsWithId(cases, ev.call.frame.case.id) = ev.call.frame.before

C10_Witness ==
    /\ ev.call.op = "delete"
    /\ ev.call.frame.pc = "ret_none"
    /\ ev.call.frame.before # {}
    /\ RowsWithId(cases, ev.call.frame.case.id) = ev.call.frame.before

\* C11: a second delete() on a case id whose row an earlier delete() has
\* removed raises nothing, leaves no row under the id and is a no-op: it
\* runs no platform action and sends no notification (its log holds the
\* four steps alone).
C11_SecondDeleteIsNoOp ==
    (ev.call.op = "delete" /\ ev.call.frame.log # <<>> /\ ev.call.frame.before = {}) =>
       /\ ev.call.frame.pc # "raise"
       /\ RowsWithId(cases, ev.call.frame.case.id) = {}
       /\ Phases(ev.call.frame.log) = ev.call.frame.log

\* C12: when create() has returned its case, from_id(guild, id), on the base
\* class as on the case's own class, finds a row and builds from it a case
\* with the same id, target, moderator, reason and expires, for every kind.
SameCase(d, c) ==
    /\ d.id = c.id
    /\ d.user = c.user
    /\ d.moderator = c.moderator
    /\ d.reason = c.reason
    /\ d.expires = c.expires

C12_CreateThenFromId ==
    (ev.call.op = "create" /\ ev.call.frame.pc = "ret") =>
       LET c == ev.call.frame.case
           found == from_id_rows(c.id, c.guild)
       IN  /\ found # {}
           /\ \A row \in found, cls \in {0, c.cls} : SameCase(from_dict(cls, row), c)

C12_Witness ==
    /\ ev.call.op = "create"
    /\ ev.call.frame.pc = "ret"
    /\ ev.call.frame.case.cls = BAN
    /\ ev.call.frame.case.expires # NULL
    /\ from_id_rows(ev.call.frame.case.id, ev.call.frame.case.guild) # {}

\* C13: right after edit() has written a copy in which only reason was
\* changed, the row from_id finds (there is one when the case was stored
\* when edit() ran) has the expires and the target of the original and the
\* new reason.
C13_EditReasonRoundTrip ==
    (ev.call.op = "edit" /\ hs[ev.call.by].field = "reason") =>
       LET n == ev.call.frame.case
           found == from_id_rows(n.id, n.guild)
       IN  /\ ev.call.frame.before # {} => found # {}
           /\ \A row \in found, orig \in hs[ev.call.by].f.before :
                 /\ row.expires = orig.expires
                 /\ row.user_id = orig.user_id
                 /\ row.reason = n.reason
                 /\ row.reason = "r2"

C13_Witness ==
    /\ ev.call.op = "edit"
    /\ hs[ev.call.by].field = "reason"
    /\ \E row \in from_id_rows(ev.call.frame.case.id, ev.call.frame.case.guild) :
          row.expires # NULL /\ row.reason = "r2"

\* C14: when create() of a Mute has returned the case, the target is timed
\* out until the case's expires and a Mute row with the case's id is stored;
\* when a delete() of a stored Mute case has run to its end and the target is
\* still a member, no row is left under the id and the target's timeout is
\* cleared.
C14_MuteLifecycle ==
    /\ (ev.call.op = "create" /\ ev.call.frame.pc = "ret" /\ ev.call.frame.case.cls = MUTE) =>
          LET c == ev.call.frame.case
          IN  /\ timedOut[c.guild][c.user] = c.expires
              /\ \E row \in from_id_rows(c.id, c.guild) : row.type = MUTE
    /\ (ev.call.op = "delete" /\ ev.call.frame.pc = "ret"
          /\ (\E row \in ev.call.frame.before : row.type = MUTE)
          /\ IsMember(ev.call.frame.case)) =>
          LET c == ev.call.frame.case
          IN  /\ RowsWithId(cases, c.id) = {}
              /\ timedOut[c.guild][c.user] = NULL

\* C15: a notification that fails with Forbidden is swallowed, for every
\* kind: a create() or delete() in which only notifications failed returns
\* its case after all four steps, and every step of a call in progress has
\* the same effect on the store and the platform, and the same continuation,
\* whether its notification is delivered or refused.
Failures ==
    {"timeout_forbidden", "remove_timeout_forbidden", "kick_forbidden",
     "ban_forbidden", "unban_forbidden", "insert_error"}
Entries(log) == {log[i] : i \in 1..Len(log)}

C15_NotifyForbiddenSwallowed ==
    /\ (ev.call.op \in {"create", "delete"}
          /\ "notify_forbidden" \in Entries(ev.call.frame.log)
          /\ Entries(ev.call.frame.log) \cap Failures = {}) =>
          /\ ev.call.frame.pc = "ret"
          /\ Phases(ev.call.frame.log) =
                (IF ev.call.op = "create" THEN DocumentedCreate ELSE DocumentedDelete)
    /\ \A f \in CreateFrames, ok \in BOOLEAN :
          ~Returned(f.pc) =>
             /\ CreateStep(f.case, f.pc, World, ok, TRUE).w = CreateStep(f.case, f.pc, World, ok, FALSE).w
             /\ CreateStep(f.case, f.pc, World, ok, TRUE).pc = CreateStep(f.case, f.pc, World, ok, FALSE).pc
    /\ \A f \in DeleteFrames, ok \in BOOLEAN :
          ~Returned(f.pc) =>
             /\ DeleteStep(f.case, f.pc, World, ok, TRUE).w = DeleteStep(f.case, f.pc, World, ok, FALSE).w
             /\ DeleteStep(f.case, f.pc, World, ok, TRUE).pc = DeleteStep(f.case, f.pc, World, ok, FALSE).pc

C15_Witness ==
    /\ ev.call.op = "create"
    /\ ev.call.frame.case.cls = KICK
    /\ ev.call.frame.pc = "ret"
    /\ "notify_forbidden" \in Entries(ev.call.frame.log)
    /\ "kick" \in Entries(ev.call.frame.log)
    /\ ev.call.frame.case.user \notin members[ev.call.frame.case.guild]

\* C16: a platform action (timeout, remove-timeout, kick, ban, unban) that
\* fails for missing permission is not swallowed: the create() or delete()
\* it fails in raises at that point, whatever the kind, and a command that
\* was running the call ends with the exception.
PlatformFailures == Failures \ {"insert_error"}

C16_PlatformFailurePropagates ==
    (ev.call.op \in {"create", "delete"}
        /\ Entries(ev.call.frame.log) \cap PlatformFailures # {}) =>
       /\ ev.call.frame.pc = "raise"
       /\ ev.call.frame.log[Len(ev.call.frame.log)] \in PlatformFailures
       /\ ev.call.by \in Handlers => ev.cmd.outcome = "raised"
       /\ ev.call.by = "tick" => ev.tick.outcome = "raised"

C16_Witness ==
    /\ ev.call.op = "create"
    /\ ev.call.frame.case.cls = MUTE
    /\ ev.call.frame.pc = "raise"
    /\ ev.call.frame.log = <<"check", "before_creation", "timeout_forbidden">>
    /\ ev.cmd.outcome = "raised"

\* C17: when the INSERT fails inside create(), the error leaves create() (and
\* the command that called it), after_creation does not run, and the step
\* leaves the stored rows as they were: no row is stored under the case's id.
C17_InsertFailurePropagates ==
    /\ [](("insert_error" \in Entries(ev.call.frame.log)) =>
            /\ ev.call.op = "create"
            /\ ev.call.frame.pc = "raise"
            /\ ev.call.frame.log[Len(ev.call.frame.log)] = "insert_error"
            /\ "after_creation" \notin Entries(ev.call.frame.log)
            /\ ev.cmd.outcome = "raised"
            /\ RowsWithId(cases, ev.call.frame.case.id) = {})
    /\ [][("insert_error" \in Entries(ev'.call.frame.log)) => cases' = cases]_vars

C17_Witness ==
    /\ ev.call.op = "create"
    /\ ev.call.frame.pc = "raise"
    /\ ev.call.frame.case.cls = WARN
    /\ ev.call.frame.log = <<"check", "before_creation", "INSERT", "insert_error">>
    /\ RowsWithId(cases, ev.call.frame.case.id) = {}

\* C18: a platform action can be applied without a persisted record: when
\* create() of a Mute has failed at its INSERT, before_creation has already
\* timed the target out until the case's expires, and no row is stored under
\* the case's id.
C18_TimeoutWithoutRecord ==
    (ev.call.op = "create" /\ ev.call.frame.case.cls = MUTE
        /\ "insert_error" \in Entries(ev.call.frame.log)) =>
       LET c == ev.call.frame.case
       IN  /\ "timeout" \in Entries(ev.call.frame.log)
           /\ c.expires # NULL
           /\ timedOut[c.guild][c.user] = c.expires
           /\ RowsWithId(cases, c.id) = {}

C18_Witness ==
    /\ ev.call.op = "create"
    /\ ev.call.frame.case.cls = MUTE
    /\ ev.call.frame.log = <<"check", "before_creation", "timeout", "INSERT", "insert_error">>
    /\ timedOut[ev.call.frame.case.guild][ev.call.frame.case.user] # NULL
    /\ cases = {}

\* C19: the tick body never overlaps with itself: under any interleaving of
\* ticks with the commands that start or restart the scheduler, the loop of
\* the cog has at most one task that is not done (so at most one body in
\* progress and at most one timer), it has one exactly when it is running,
\* and the task started on the class-level Loop never reaches the body.
C19_NoOverlappingTick ==
    /\ loop.tasks <= 1
    /\ is_running(loop) <=> loop.tasks = 1
    /\ loop.state \in {"off", "wait", "body"}
    /\ classLoop \in {"off", "launched"}

\* A command has restarted the scheduler while the tick was inside the
\* delete() of the only Mute: the timeout is cleared, the row still stored.
C19_Witness ==
    /\ ev.cmd.outcome = "done"
    /\ ev.cmd.name = "warn"
    /\ loop.state = "wait"
    /\ loop.tasks = 1
    /\ \E r \in cases :
          /\ r.type = MUTE
          /\ r.case_id = 1
          /\ r.user_id \in members[r.guild_id]
          /\ timedOut[r.guild_id][r.user_id] = NULL

\* C20: every Case object the program rebuilds from a stored row carries the
\* class and the kind of the row's type column: the objects delete() is
\* called on (built by the tick, by the typed from_id of `case delete`, by
\* from_db) have the class and type of the row stored under their id, and
\* the base objects from_id returns carry the row's type; so the deletion
\* hooks that run are those of the stored kind.
C20_ObjectsCarryStoredKind ==
    /\ \A f \in DeleteFrames :
          f.log # <<>> => \A r \in f.before : f.case.cls = r.type /\ f.case.type = r.type
    /\ \A h \in Handlers :
          hs[h].pc \in {"from_id_typed", "UPDATE"} =>
             \A r \in from_id_rows(hs[h].f.case.id, hs[h].f.case.guild) :
                hs[h].f.case.type = r.type


\* C21: from_db called with a guild returns only cases of that guild that
\* satisfy every filter given (the target, the expires), each stored row at
\* most once; with a limit it returns min(limit, number of matching rows) of
\* them, without one all of them.
Satisfies(r, filters) ==
    \A i \in 1..Len(filters) :
       CASE filters[i][1] = "user" -> r.user_id = filters[i][2]
         [] filters[i][1] = "moderator" -> r.moderator_id = filters[i][2]
         [] filters[i][1] = "expires" -> r.expires = filters[i][2]

Matching(q) == {r \in cases : r.guild_id = q.guild /\ Satisfies(r, q.filters)}

C21_FromDbFiltersAndLimits ==
    (ev.query.op = "from_db" /\ ev.query.guild # "none" /\ ~ev.query.raised) =>
       LET q == ev.query
           n == Cardinality(Matching(q))
       IN  /\ \A i \in 1..Len(q.result) :
                \E r \in Matching(q) :
                   /\ r.case_id = q.result[i].id
                   /\ r.guild_id = q.result[i].guild
                   /\ r.user_id = q.result[i].user
                   /\ r.expires = q.result[i].expires
           /\ \A i, j \in 1..Len(q.result) : q.result[i].id = q.result[j].id => i = j
           /\ Len(q.result) = IF q.limit = NULL THEN n ELSE Min(q.limit, n)

C21_Witness ==
    /\ ev.query.op = "from_db"
    /\ ev.query.guild = "g1"
    /\ ev.query.filters = << <<"user", "u1">>, <<"expires", 1>> >>
    /\ ev.query.limit = 1
    /\ Cardinality(Matching(ev.query)) = 2
    /\ Len(ev.query.result) = 1
    /\ \E r \in cases : r.guild_id = "g1" /\ r.user_id = "u1" /\ r.expires # 1

\* C22: delete() of a case of guild G removes only the row stored under the
\* case's (guild, id): whenever a step removes the row of some (guild, id),
\* a delete() of a case with that guild and that id is at its DELETE
\* statement, so a row another guild holds under the same id stays.
HasKey(rows, g, id) == \E r \in rows : r.guild_id = g /\ r.case_id = id

C22_DeleteRemovesOnlyItsRow ==
    [][\A r \in cases :
          ~HasKey(cases', r.guild_id, r.case_id) =>
             \E f \in DeleteFrames :
                f.pc = "DELETE" /\ f.case.id = r.case_id /\ f.case.guild = r.guild_id]_vars

\* C23: the UPDATE of edit() changes only the row stored under the edited
\* case's (guild, id), and in it only the target, reason, expires and message:
\* every other row is stored unchanged (a row another guild holds under the
\* same id too), the row keeps its kind, guild, moderator and id, and the
\* step changes nothing on the platform and runs no hook.
C23_EditChangesOnlyItsRow ==
    [][\A h \in Handlers :
          (hs[h].pc = "UPDATE" /\ hs'[h].pc = "send") =>
             LET n == hs[h].f.case
                 other(r) == r.guild_id # n.guild \/ r.case_id # n.id
             IN  /\ {r \in cases : other(r)} = {r \in cases' : other(r)}
                 /\ \A r \in cases : ~other(r) =>
                       \E r2 \in cases' :
                          /\ r2.case_id = r.case_id /\ r2.guild_id = r.guild_id
                          /\ r2.type = r.type /\ r2.moderator_id = r.moderator_id
                 /\ members' = members /\ banned' = banned /\ timedOut' = timedOut
                 /\ ev'.call.frame.log = <<"UPDATE">>]_vars

\* C24: when two case edit commands on one case, one setting reason and the
\* other expires, have both run their UPDATE, the stored row carries the new
\* reason and the new expires, however their reads and writes interleaved.
C24_ConcurrentEditsKeepBoth ==
    \A a, b \in Handlers :
       (/\ hs[a].cmd = "edit" /\ hs[a].pc = "send" /\ hs[a].field = "reason"
        /\ hs[b].cmd = "edit" /\ hs[b].pc = "send" /\ hs[b].field = "expires"
        /\ hs[a].id = hs[b].id /\ hs[a].guild = hs[b].guild) =>
          \A r \in from_id_rows(hs[a].id, hs[a].guild) :
             /\ r.reason = hs[a].f.case.reason
             /\ r.expires = hs[b].f.case.expires

\* C25: delete() calls on one case that run at once (two moderators' case
\* delete commands, a command and the tick) are harmless in a run where no
\* platform call fails: no delete() raises, a delete() that has run its
\* DELETE leaves no row under the case's id, and a step removes rows only
\* under the id of a delete() that is at its DELETE (the second DELETE finds
\* nothing and removes nothing).
C25_ConcurrentDeletesHarmless ==
    /\ [](/\ ev.call.op = "delete" => ev.call.frame.pc # "raise"
          /\ \A f \in DeleteFrames :
                f.pc \in {"after_deletion", "ret"} => RowsWithId(cases, f.case.id) = {})
    /\ [][\A r \in cases :
             RowsWithId(cases', r.case_id) = {} =>
                \E f \in DeleteFrames : f.pc = "DELETE" /\ f.case.id = r.case_id]_vars

\* Two commands have both passed the check while the row was stored and both
\* have run their DELETE; the second one has just returned.
C25_Witness ==
    /\ ev.call.op = "delete"
    /\ ev.call.by = "h1"
    /\ ev.call.frame.pc = "ret"
    /\ ev.call.frame.before # {}
    /\ "h2" \in Handlers
    /\ hs["h2"].cmd = "delete"
    /\ hs["h2"].pc = "send"
    /\ hs["h2"].f.pc = "ret"
    /\ hs["h2"].f.before = ev.call.frame.before
    /\ hs["h2"].f.case.id = ev.call.frame.case.id
    /\ cases = {}

\* C26: a delete() the tick has started is never cancelled: once its
\* before_deletion has run, the next step leaves the call in progress on the
\* same case or is the step in which it returns or raises, whatever command
\* restarts the scheduler meanwhile.
C26_InFlightDeleteCompletes ==
    [][(loop.state = "body" /\ loop.f.pc \in {"DELETE", "after_deletion"}) =>
          \/ loop'.state = "body" /\ loop'.f.case = loop.f.case
                /\ IsPrefix(loop.f.log, loop'.f.log)
          \/ ev'.call.by = "tick" /\ ev'.call.frame.case = loop.f.case
                /\ ev'.call.frame.pc \in {"ret", "raise"}]_vars

C28_UnbanDeletesOnlyBans ==
    \A f \in {hs[h].f : h \in {x \in Handlers : hs[x].cmd = "unban"}}
             \cup (IF ev.cmd.name = "unban" \/ (ev.call.by \in Handlers /\ hs[ev.call.by].cmd = "unban")
                   THEN {ev.call.frame} ELSE {}) :
       Entries(f.log) \cap {"before_deletion", "DELETE", "after_deletion"} # {} =>
          \A r \in f.before : r.type = BAN

\* C29: add_money raises the total holdings (cash + bank) of the user by
\* exactly the amount it was asked to add, and returns the new balance of the
\* wallet it was asked to use, for either wallet and also for a user whose
\* bank balance is negative; consequently a deposit or a withdraw that went
\* through leaves the author's cash + bank unchanged.  Stated for commands
\* that run one at a time.
C29_AddMoneyAddsExactlyAmount ==
    seq => \A e \in EcoHandlers :
        /\ es[e].last.call.op = "add_money" =>
              /\ es[e].last.held = es[e].last.call.held + es[e].last.call.asked
              /\ es[e].last.call.ret = es[e].last.balance
        /\ es[e].cmd \in {"deposit", "withdraw"} /\ es[e].outcome = "sent" =>
              es[e].after = es[e].before

SumCash(t) ==
    LET S[U \in SUBSET Users] ==
            IF U = {} THEN 0
            ELSE LET u == CHOOSE x \in U : TRUE IN t[u].cash + S[U \ {u}]
    IN S[Users]

OnlyPays == \A e \in EcoHandlers : es[e].cmd \in {"none", "pay"}

\* C30: pay conserves money under any interleaving of concurrent pay commands:
\* in a run of pay commands only, that began with nobody in debt, no user's
\* cash is ever negative, and once every command has ended the sum of all
\* users' cash is what it was when the run began.
C30_PayConservesCash ==
    (OnlyPays /\ \A u \in Users : economy0[u].bank >= 0) =>
        /\ \A u \in Users : economy[u].cash >= 0
        /\ (\A e \in EcoHandlers : EcoAtRest(e)) => SumCash(economy) = SumCash(economy0)

====
